---- MODULE Spec2Model ----
(***************************************************************************)
(* The search page of manga-tui (src/src/view/pages/search.rs): the page   *)
(* state machine, the action channel and the page-local event channel,     *)
(* the search fetch, and the per item cover pipeline                       *)
(* (fetch -> decode -> resize/encode worker -> Redraw).                    *)
(*                                                                         *)
(* The UI context runs handle_key_events, update, tick, handle_events and  *)
(* render one at a time; tokio tasks and threads run between them.  Every  *)
(* handler and every completion of a background unit is one action.        *)
(***************************************************************************)
EXTENDS Integers, Sequences, FiniteSets, TLC

\* ------------------------------------------------------------------ bounds
\* Enter presses that submit a search, over the whole run
MaxSearches == 2
\* items in one search response
MaxItems == 2
\* items with cover attributes the remote returns, over the whole run
MaxCovers == 2
\* items with cover attributes the remote returns, over the whole run (SpecLive)
LiveCovers == 1
\* actions waiting on the action channel (Spec)
MaxActions == 1
\* actions waiting on the action channel during a burst of keys (SpecKeys)
MaxBurst == 2
\* characters of the search bar (SpecKeys)
MaxQueryLen == 1

\* ------------------------------------------------------------- value sets
\* Manga ids: 1 stands for "a1", 2 for "a2", ...; NoId for an event without one
Ids == 1..MaxItems
NoId == 0
Keys == {"s", "j", "k", "Enter", "Esc", "Backspace"}
CharKeys == {"s", "j", "k"}

\* Option::None of the selection cursor (ListState.selected)
NoSel == -1

\* The items of a search response: an id and whether a relationship carries
\* cover attributes.  One response never repeats an id.
ResponseItems == [id : Ids, cover : BOOLEAN]
Responses ==
    { d \in UNION { [1..n -> ResponseItems] : n \in 1..MaxItems } :
        \A i, j \in 1..Len(d) : i # j => d[i].id # d[j].id }

VARIABLES
    input_mode,     \* InputMode: "Idle" | "Typing"
    state,          \* PageState: "Normal" | "SearchingMangas" | "DisplayingSearchResponse"
    search_bar,     \* text of the Input
    mangas,         \* mangas_found_list.widget.mangas
    selected,       \* mangas_found_list.state.selected (NoSel for None)
    action_q,       \* action_tx -> local_action_rx
    local_ev,       \* local_event_tx -> local_event_rx
    global_ev,      \* Redraw events on global_event_tx
    search_tasks,   \* spawned search fetches that have not sent yet (their query)
    cover_fetches,  \* spawned cover fetches that have not sent yet
    decoders,       \* decode threads that have not sent yet
    workers,        \* resize/encode worker loops that have not left their loop
    gen,            \* history: number of result lists built from a response
    nSearch,        \* history: Enter presses that enqueued a Search
    nCover,         \* history: items with cover attributes the remote returned
    decodeNone,     \* history: <<id, gen>> of every DecodeImage(None, id) sent
    submitted,      \* history: the text at the Enter press of every waiting Search
    last            \* history: the handler or unit that took the latest step (for a
                    \* key event the key) and the outcome or event it had

vars == << input_mode, state, search_bar, mangas, selected, action_q, local_ev,
           global_ev, search_tasks, cover_fetches, decoders, workers, gen,
           nSearch, nCover, decodeNone, submitted, last >>

\* ----------------------------------------------------------------- values
\* A MangaItem.  gen is the result list the item was built for (history).
\* igen = 0: image_state is None; otherwise image_state is the ThreadProtocol
\* attached by the LoadCover event of pipeline <<id, igen>>.
\* pg = 0: image_state.inner is None; otherwise inner holds the protocol that
\* pipeline <<id, pg>> created, resized and encoded iff enc.
MangaItem(id, g) == [id |-> id, gen |-> g, igen |-> 0, pg |-> 0, enc |-> FALSE]

LoadMangasFound(some, data) ==
    [type |-> "LoadMangasFound", some |-> some, id |-> NoId, gen |-> 0, data |-> data]
DecodeImage(some, id, g) ==
    [type |-> "DecodeImage", some |-> some, id |-> id, gen |-> g, data |-> << >>]
LoadCover(some, id, g) ==
    [type |-> "LoadCover", some |-> some, id |-> id, gen |-> g, data |-> << >>]

\* Events::Redraw(protocol, id); wgen and pg say which worker sent it and
\* which pipeline created the protocol (history)
Redraw(id, wg, pg) == [id |-> id, wgen |-> wg, pg |-> pg]

Step(op, id, some) == [op |-> op, id |-> id, some |-> some]

ItemIds == { mangas[i].id : i \in 1..Len(mangas) }

\* Mutant of Find: the first item is taken whatever its id
Find_FirstItem(id) == IF mangas # << >> THEN 1 ELSE 0

\* iter_mut().find(|manga| manga.id == id): the first match, 0 when none
Find(id) ==
    IF \E i \in 1..Len(mangas) : mangas[i].id = id
    THEN CHOOSE i \in 1..Len(mangas) :
            /\ mangas[i].id = id
            /\ \A j \in 1..(i - 1) : mangas[j].id # id
    ELSE 0

Init ==
    /\ input_mode = "Idle"
    /\ state = "Normal"
    /\ search_bar = << >>
    /\ mangas = << >>
    /\ selected = NoSel
    /\ action_q = << >>
    /\ local_ev = << >>
    /\ global_ev = << >>
    /\ search_tasks = << >>
    /\ cover_fetches = {}
    /\ decoders = {}
    /\ workers = {}
    /\ gen = 0
    /\ nSearch = 0
    /\ nCover = 0
    /\ decodeNone = {}
    /\ submitted = << >>
    /\ last = Step("init", NoId, FALSE)

\* ------------------------------------------------------ key events (UI)
\* search_bar.handle_event: a character is appended, Backspace removes the
\* last character, any other key leaves the text as it is
InputHandleEvent(text, k) ==
    IF k \in CharKeys THEN Append(text, k)
    ELSE IF k = "Backspace" /\ text # << >> THEN SubSeq(text, 1, Len(text) - 1)
    ELSE text

\* Mutant of KeyAction: Enter sends Search whatever the PageState
KeyAction_EnterUnguarded(k) ==
    IF input_mode = "Idle"
    THEN CASE k = "s" -> "StartTyping"
           [] k = "j" -> "ScrollDown"
           [] k = "k" -> "ScrollUp"
           [] OTHER -> ""
    ELSE CASE k = "Enter" -> "Search"
           [] k = "Esc" -> "StopTyping"
           [] OTHER -> ""

\* The action handle_key_events sends for key k ("" when it sends none)
KeyAction(k) ==
    IF input_mode = "Idle"
    THEN CASE k = "s" -> "StartTyping"
           [] k = "j" -> "ScrollDown"
           [] k = "k" -> "ScrollUp"
           [] OTHER -> ""
    ELSE CASE k = "Enter" -> IF state # "SearchingMangas" THEN "Search" ELSE ""
           [] k = "Esc" -> "StopTyping"
           [] OTHER -> ""

\* The search bar after key k
KeyText(k) ==
    IF input_mode = "Typing" /\ k \notin {"Enter", "Esc"}
    THEN InputHandleEvent(search_bar, k)
    ELSE search_bar

handle_key_events(k) ==
    /\ action_q' = IF KeyAction(k) = "" THEN action_q
                   ELSE Append(action_q, KeyAction(k))
    /\ nSearch' = IF KeyAction(k) = "Search" THEN nSearch + 1 ELSE nSearch
    /\ search_bar' = KeyText(k)
    /\ submitted' = IF KeyAction(k) = "Search" THEN Append(submitted, search_bar)
                    ELSE submitted
    /\ last' = Step(k, NoId, FALSE)
    /\ UNCHANGED << input_mode, state, mangas, selected, local_ev, global_ev,
                    search_tasks, cover_fetches, decoders, workers, gen,
                    nCover, decodeNone >>

\* --------------------------------------------------------- actions (UI)
\* Mutant of ListNext: the selection wraps around at the last item
ListNext_Circular(sel, n) ==
    IF n = 0 THEN NoSel
    ELSE IF sel = NoSel THEN 0
    ELSE IF sel + 1 > n - 1 THEN 0
    ELSE sel + 1

\* ListState::next and ListState::previous over a list of n items: the
\* selection moves by one and is clamped to the list; the first item is
\* selected when there was no selection
ListNext(sel, n) ==
    IF n = 0 THEN NoSel
    ELSE IF sel = NoSel THEN 0
    ELSE IF sel + 1 > n - 1 THEN n - 1
    ELSE sel + 1

ListPrevious(sel, n) ==
    IF n = 0 THEN NoSel
    ELSE IF sel = NoSel THEN 0
    ELSE IF sel - 1 < 0 THEN 0
    ELSE IF sel - 1 > n - 1 THEN n - 1
    ELSE sel - 1

scroll_down == ListNext(selected, Len(mangas))
scroll_up == ListPrevious(selected, Len(mangas))

focus_search_bar == "Typing"

\* The fields update(action) assigns
UpdateInputMode(action) ==
    CASE action = "StartTyping" -> focus_search_bar
      [] action = "StopTyping" -> "Idle"
      [] OTHER -> input_mode

UpdateState(action) ==
    IF action = "Search" THEN "SearchingMangas" ELSE state

\* Mutant of UpdateMangas: Search leaves the list of the last search
UpdateMangas_KeepOnSearch(action) == mangas

UpdateMangas(action) ==
    IF action = "Search" THEN << >> ELSE mangas

UpdateSelected(action) ==
    CASE action = "ScrollDown" -> scroll_down
      [] action = "ScrollUp" -> scroll_up
      [] OTHER -> selected

\* tokio::spawn of the search fetch, with the search bar's text
UpdateSearchTasks(action) ==
    IF action = "Search" THEN Append(search_tasks, search_bar) ELSE search_tasks

\* The next action of local_action_rx is handed to update
update ==
    /\ action_q # << >>
    /\ action_q' = Tail(action_q)
    /\ input_mode' = UpdateInputMode(Head(action_q))
    /\ state' = UpdateState(Head(action_q))
    /\ mangas' = UpdateMangas(Head(action_q))
    /\ selected' = UpdateSelected(Head(action_q))
    /\ search_tasks' = UpdateSearchTasks(Head(action_q))
    /\ submitted' = IF Head(action_q) = "Search" THEN Tail(submitted) ELSE submitted
    /\ last' = Step(Head(action_q), NoId, FALSE)
    /\ UNCHANGED << search_bar, local_ev, global_ev, cover_fetches, decoders,
                    workers, gen, nSearch, nCover, decodeNone >>

\* ------------------------------------------------- search fetch (task)
\* Mutant of SearchEvent: a successful call with no item is sent as Some
SearchEvent_SomeOnEmpty(ok, data) ==
    IF ok THEN LoadMangasFound(TRUE, data)
    ELSE LoadMangasFound(FALSE, << >>)

\* The event the search task sends for the outcome of client.search_mangas
SearchEvent(ok, data) ==
    IF ok /\ data # << >> THEN LoadMangasFound(TRUE, data)
    ELSE LoadMangasFound(FALSE, << >>)

\* The items of a response that carry cover attributes
Covers(data) == Cardinality({ j \in 1..Len(data) : data[j].cover })

RemoveAt(q, i) == SubSeq(q, 1, i - 1) \o SubSeq(q, i + 1, Len(q))

search_task(i, ok, data) ==
    /\ i \in 1..Len(search_tasks)
    /\ search_tasks' = RemoveAt(search_tasks, i)
    /\ local_ev' = Append(local_ev, SearchEvent(ok, data))
    /\ nCover' = nCover + Covers(SearchEvent(ok, data).data)
    /\ last' = Step("search_task", NoId, ok /\ data # << >>)
    /\ UNCHANGED << input_mode, state, search_bar, mangas, selected, action_q,
                    global_ev, cover_fetches, decoders, workers, gen, nSearch, submitted,
                    decodeNone >>

\* ------------------------------------------------------------ tick (UI)
RECURSIVE NoCoverEvents(_, _)
\* The DecodeImage(None, id) events the list-building loop sends itself, in
\* response order: one for every item without cover attributes
NoCoverEvents(data, g) ==
    IF data = << >> THEN << >>
    ELSE (IF Head(data).cover THEN << >>
          ELSE << DecodeImage(FALSE, Head(data).id, g) >>)
         \o NoCoverEvents(Tail(data), g)

\* Mutant of CoverSpawns: a cover fetch is spawned for every item
CoverSpawns_EveryItem(data, g) ==
    { [id |-> data[i].id, gen |-> g] : i \in 1..Len(data) }

\* The cover fetches the list-building loop spawns
CoverSpawns(data, g) ==
    { [id |-> data[i].id, gen |-> g] : i \in { j \in 1..Len(data) : data[j].cover } }

\* ListMangasFoundWidget::new(mangas) of the response, in response order
BuildMangas(data, g) == [i \in 1..Len(data) |-> MangaItem(data[i].id, g)]

\* Mutant of LoadedMangas: a failed search keeps the list it finds
LoadedMangas_KeepOnNone(ev, g) ==
    IF ev.some THEN BuildMangas(ev.data, g) ELSE mangas

\* mangas_found_list.widget after LoadMangasFound(response)
LoadedMangas(ev, g) ==
    IF ev.some THEN BuildMangas(ev.data, g) ELSE << >>

\* Mutant of DecodeSpawns: a decode thread is started for None bytes too
DecodeSpawns_Always(ev) == TRUE

\* Whether tick hands a DecodeImage event to a decode thread
DecodeSpawns(ev) == ev.some

\* The item a LoadCover event attaches its ThreadProtocol to (0: none)
CoverTarget(ev) == IF ev.some THEN Find(ev.id) ELSE 0

\* The item with a fresh image_state: a protocol not yet resized
AttachCover(m, g) == [m EXCEPT !.igen = g, !.pg = g, !.enc = FALSE]

\* Mutant of tick_LoadMangasFound: the PageState is left as it is
tick_LoadMangasFound_KeepsState(ev) ==
    LET g == IF ev.some THEN gen + 1 ELSE gen
        data == IF ev.some THEN ev.data ELSE << >>
    IN  /\ state' = state
        /\ mangas' = LoadedMangas(ev, g)
        /\ gen' = g
        /\ cover_fetches' = cover_fetches \cup CoverSpawns(data, g)
        /\ local_ev' = Tail(local_ev) \o NoCoverEvents(data, g)
        /\ decodeNone' = decodeNone \cup
               { << data[i].id, g >> : i \in { j \in 1..Len(data) : ~data[j].cover } }
        /\ UNCHANGED << decoders, workers >>

tick_LoadMangasFound(ev) ==
    LET g == IF ev.some THEN gen + 1 ELSE gen
        data == IF ev.some THEN ev.data ELSE << >>
    IN  /\ state' = "DisplayingSearchResponse"
        /\ mangas' = LoadedMangas(ev, g)
        /\ gen' = g
        /\ cover_fetches' = cover_fetches \cup CoverSpawns(data, g)
        /\ local_ev' = Tail(local_ev) \o NoCoverEvents(data, g)
        /\ decodeNone' = decodeNone \cup
               { << data[i].id, g >> : i \in { j \in 1..Len(data) : ~data[j].cover } }
        /\ UNCHANGED << decoders, workers >>

\* Mutant of tick_DecodeImage: the receive is repeated, and the event that
\* follows the one applied is taken off the channel with it
tick_DecodeImage_TakesTwo(ev) ==
    /\ decoders' = IF DecodeSpawns(ev)
                   THEN decoders \cup { [id |-> ev.id, gen |-> ev.gen] }
                   ELSE decoders
    /\ local_ev' = IF Len(local_ev) >= 2 THEN Tail(Tail(local_ev))
                   ELSE Tail(local_ev)
    /\ UNCHANGED << state, mangas, gen, cover_fetches, decodeNone, workers >>

tick_DecodeImage(ev) ==
    /\ decoders' = IF DecodeSpawns(ev)
                   THEN decoders \cup { [id |-> ev.id, gen |-> ev.gen] }
                   ELSE decoders
    /\ local_ev' = Tail(local_ev)
    /\ UNCHANGED << state, mangas, gen, cover_fetches, decodeNone, workers >>

tick_LoadCover(ev) ==
    /\ IF CoverTarget(ev) # 0
       THEN /\ mangas' = [mangas EXCEPT
                            ![CoverTarget(ev)] = AttachCover(@, ev.gen)]
            /\ workers' = workers \cup
                            { [id |-> ev.id, gen |-> ev.gen, reqs |-> << >>] }
       ELSE UNCHANGED << mangas, workers >>
    /\ local_ev' = Tail(local_ev)
    /\ UNCHANGED << state, gen, cover_fetches, decodeNone, decoders >>

\* Mutant of tick: a receive that returns no event is handled as a search
\* without result
tick_EmptyIsNoResult ==
    /\ IF local_ev = << >>
       THEN /\ last' = Step("tick", NoId, FALSE)
            /\ state' = "DisplayingSearchResponse"
            /\ mangas' = << >>
            /\ UNCHANGED << gen, cover_fetches, local_ev, decodeNone, decoders,
                            workers >>
       ELSE /\ last' = Step(Head(local_ev).type, Head(local_ev).id,
                            Head(local_ev).some)
            /\ CASE Head(local_ev).type = "LoadMangasFound" ->
                        tick_LoadMangasFound(Head(local_ev))
                 [] Head(local_ev).type = "DecodeImage" ->
                        tick_DecodeImage(Head(local_ev))
                 [] Head(local_ev).type = "LoadCover" ->
                        tick_LoadCover(Head(local_ev))
    /\ UNCHANGED << input_mode, search_bar, selected, action_q, global_ev,
                    search_tasks, nSearch, submitted, nCover >>

tick ==
    /\ IF local_ev = << >>
       THEN /\ last' = Step("tick", NoId, FALSE)
            /\ UNCHANGED << state, mangas, gen, cover_fetches, local_ev,
                            decodeNone, decoders, workers >>
       ELSE /\ last' = Step(Head(local_ev).type, Head(local_ev).id,
                            Head(local_ev).some)
            /\ CASE Head(local_ev).type = "LoadMangasFound" ->
                        tick_LoadMangasFound(Head(local_ev))
                 [] Head(local_ev).type = "DecodeImage" ->
                        tick_DecodeImage(Head(local_ev))
                 [] Head(local_ev).type = "LoadCover" ->
                        tick_LoadCover(Head(local_ev))
    /\ UNCHANGED << input_mode, search_bar, selected, action_q, global_ev,
                    search_tasks, nSearch, submitted, nCover >>

\* ------------------------------------------------ cover pipeline (units)
\* The cover fetch task: get_cover_for_manga succeeded (ok) or failed
cover_fetch(f, ok) ==
    /\ f \in cover_fetches
    /\ cover_fetches' = cover_fetches \ {f}
    /\ local_ev' = Append(local_ev, DecodeImage(ok, f.id, f.gen))
    /\ decodeNone' = IF ok THEN decodeNone
                     ELSE decodeNone \cup { << f.id, f.gen >> }
    /\ last' = Step("cover_fetch", NoId, ok)
    /\ UNCHANGED << input_mode, state, search_bar, mangas, selected, action_q,
                    global_ev, search_tasks, decoders, workers, gen, nSearch, submitted,
                    nCover >>

\* The decode thread: dyn_img.decode() succeeded (ok) or failed
decode_thread(d, ok) ==
    /\ d \in decoders
    /\ decoders' = decoders \ {d}
    /\ local_ev' = Append(local_ev, LoadCover(ok, d.id, d.gen))
    /\ last' = Step("decode_thread", NoId, FALSE)
    /\ UNCHANGED << input_mode, state, search_bar, mangas, selected, action_q,
                    global_ev, search_tasks, cover_fetches, workers, gen,
                    nSearch, submitted, nCover, decodeNone >>

\* Mutant of ChannelOpen: a sender of the channel outlives the image_state
ChannelOpen_Always(w) == TRUE

\* The sender of worker w's channel lives in the image_state it was made for
ChannelOpen(w) ==
    \E i \in 1..Len(mangas) : mangas[i].id = w.id /\ mangas[i].igen = w.gen

\* The worker loop: recv() returns a request; resize, encode, send Redraw
worker_resize(w) ==
    /\ w \in workers
    /\ w.reqs # << >>
    /\ workers' = (workers \ {w}) \cup { [w EXCEPT !.reqs = Tail(@)] }
    /\ global_ev' = Append(global_ev, Redraw(w.id, w.gen, Head(w.reqs)))
    /\ last' = Step("worker_resize", NoId, FALSE)
    /\ UNCHANGED << input_mode, state, search_bar, mangas, selected, action_q,
                    local_ev, search_tasks, cover_fetches, decoders, gen,
                    nSearch, submitted, nCover, decodeNone >>

\* The worker loop: recv() fails (sender dropped, nothing queued); break
worker_exit(w) ==
    /\ w \in workers
    /\ w.reqs = << >>
    /\ ~ChannelOpen(w)
    /\ workers' = workers \ {w}
    /\ last' = Step("worker_exit", NoId, FALSE)
    /\ UNCHANGED << input_mode, state, search_bar, mangas, selected, action_q,
                    local_ev, global_ev, search_tasks, cover_fetches, decoders,
                    gen, nSearch, submitted, nCover, decodeNone >>

\* ------------------------------------------------- Redraw and render (UI)
\* Mutant of RedrawTarget: the id comparison never matches
RedrawTarget_NoMatch(e) == 0

\* The item handle_events(Redraw(protocol, id)) stores the protocol in
RedrawTarget(e) ==
    IF Find(e.id) # 0 /\ mangas[Find(e.id)].igen # 0 THEN Find(e.id) ELSE 0

handle_events_Redraw ==
    /\ global_ev # << >>
    /\ global_ev' = Tail(global_ev)
    /\ mangas' = IF RedrawTarget(Head(global_ev)) # 0
                 THEN [mangas EXCEPT ![RedrawTarget(Head(global_ev))] =
                          [@ EXCEPT !.pg = Head(global_ev).pg, !.enc = TRUE]]
                 ELSE mangas
    /\ last' = Step("Redraw", Head(global_ev).id, TRUE)
    /\ UNCHANGED << input_mode, state, search_bar, selected, action_q, local_ev,
                    search_tasks, cover_fetches, decoders, workers, gen,
                    nSearch, submitted, nCover, decodeNone >>

\* get_current_manga_selected: mangas.get_mut(index), 0 when there is none
CurrentMangaSelected ==
    IF selected # NoSel /\ selected < Len(mangas) THEN selected + 1 ELSE 0

\* The item whose image_state render_manga_area hands to the preview: the
\* selected one, while the search response is displayed (0: none)
PreviewItem ==
    IF state = "DisplayingSearchResponse" THEN CurrentMangaSelected ELSE 0

\* The preview of an image_state sends a resize request when the state
\* holds a protocol that has not been resized and encoded
NeedsResize(m) == m.igen # 0 /\ m.pg # 0 /\ ~m.enc

\* The item whose protocol render sends to its worker (0: none)
RenderTarget ==
    IF PreviewItem # 0 /\ NeedsResize(mangas[PreviewItem])
    THEN PreviewItem ELSE 0

\* The preview of the selected item: a protocol that needs a resize is taken
\* out of image_state.inner and sent to the item's worker
render ==
    /\ IF RenderTarget # 0
       THEN LET m == mangas[RenderTarget]
                w == CHOOSE x \in workers : x.id = m.id /\ x.gen = m.igen
            IN  /\ workers' = (workers \ {w}) \cup
                                { [w EXCEPT !.reqs = Append(@, m.pg)] }
                /\ mangas' = [mangas EXCEPT ![RenderTarget].pg = 0]
       ELSE UNCHANGED << mangas, workers >>
    /\ last' = Step("render", NoId, RenderTarget # 0)
    /\ UNCHANGED << input_mode, state, search_bar, selected, action_q, local_ev,
                    global_ev, search_tasks, cover_fetches, decoders, gen,
                    nSearch, submitted, nCover, decodeNone >>

\* ------------------------------------------------------- specification
\* Spec: the page with its cover pipelines.  The keys are those that leave
\* the search bar's text alone, and at most MaxActions actions wait.
KeyEvent ==
    \E k \in Keys :
        /\ handle_key_events(k)
        /\ search_bar' = search_bar
        /\ Len(action_q') <= MaxActions
        /\ nSearch' <= MaxSearches

SearchTask ==
    \E i \in 1..Len(search_tasks), ok \in BOOLEAN, data \in Responses \cup { << >> } :
        /\ search_task(i, ok, data)
        /\ nCover' <= MaxCovers

CoverFetch == \E f \in cover_fetches, ok \in BOOLEAN : cover_fetch(f, ok)
DecodeThread == \E d \in decoders, ok \in BOOLEAN : decode_thread(d, ok)
WorkerResize == \E w \in workers : worker_resize(w)
WorkerExit == \E w \in workers : worker_exit(w)

Next ==
    \/ KeyEvent
    \/ update
    \/ tick
    \/ handle_events_Redraw
    \/ render
    \/ SearchTask
    \/ CoverFetch
    \/ DecodeThread
    \/ WorkerResize
    \/ WorkerExit

Spec == Init /\ [][Next]_vars

\* SpecKeys: the keyboard side of the page.  Every key, typed text included,
\* and bursts of up to MaxBurst keys handled before their actions are
\* applied; the remote returns items without cover attributes.
KeyBurst ==
    \E k \in Keys :
        /\ handle_key_events(k)
        /\ Len(search_bar') <= MaxQueryLen
        /\ Len(action_q') <= MaxBurst
        /\ nSearch' <= MaxSearches

SearchTaskNoCover ==
    \E i \in 1..Len(search_tasks), ok \in BOOLEAN, data \in Responses \cup { << >> } :
        /\ search_task(i, ok, data)
        /\ nCover' = 0

NextKeys ==
    \/ KeyBurst
    \/ update
    \/ tick
    \/ render
    \/ SearchTaskNoCover

SpecKeys == Init /\ [][NextKeys]_vars

\* ---------------------------------------------------------------- claims
\* Search fetches spawned whose LoadMangasFound event tick has not consumed
OutstandingSearches ==
    Len(search_tasks)
    + Cardinality({ i \in 1..Len(local_ev) : local_ev[i].type = "LoadMangasFound" })

\* C1 (as claimed): update(Search) applied while PageState is SearchingMangas
\* changes neither PageState nor the result list and spawns no search fetch.
C1_SearchWhileSearchingIsNoOp ==
    [][ (last'.op = "Search" /\ state = "SearchingMangas")
        => /\ state' = state
           /\ mangas' = mangas
           /\ search_tasks' = search_tasks ]_vars

\* C2 (as claimed): at most one search is outstanding in every reachable state.
C2_AtMostOneSearchOutstanding == OutstandingSearches <= 1

\* C3: the tick that consumes LoadMangasFound(None) ends with PageState =
\* DisplayingSearchResponse and an empty result list, whatever they were, and
\* starts no cover fetch, decode thread or worker and sends no event.
C3_SearchCompletedNone ==
    [][ (last'.op = "LoadMangasFound" /\ ~last'.some)
        => /\ state' = "DisplayingSearchResponse"
           /\ mangas' = << >>
           /\ cover_fetches' = cover_fetches
           /\ decoders' = decoders
           /\ workers' = workers
           /\ local_ev' = Tail(local_ev) ]_vars

\* C3 witness: LoadMangasFound(None) has just been applied, after a list had
\* been built from an earlier response
C3_Witness ==
    /\ last.op = "LoadMangasFound" /\ ~last.some
    /\ gen >= 1
    /\ state = "DisplayingSearchResponse" /\ mangas = << >>

\* The cursor is absent or an index into the result list
CursorValid == selected = NoSel \/ (0 <= selected /\ selected < Len(mangas))

\* C4 (as claimed): the tick that consumes LoadMangasFound(Some(data)) ends
\* with PageState = DisplayingSearchResponse, the list holding the items of
\* data in response order and nothing else, and the cursor unset.
C4_SearchCompletedSome ==
    [][ (last'.op = "LoadMangasFound" /\ last'.some)
        => /\ state' = "DisplayingSearchResponse"
           /\ Len(mangas') = Len(Head(local_ev).data)
           /\ \A i \in 1..Len(mangas') : mangas'[i].id = Head(local_ev).data[i].id
           /\ selected' = NoSel ]_vars

\* C5 (as claimed): the cursor is always absent or a valid index, and every
\* replacement of the list (Search, LoadMangasFound) leaves it cleared.
C5_CursorValidAndCleared ==
    [][ /\ CursorValid'
        /\ (last'.op \in {"Search", "LoadMangasFound"} => selected' = NoSel) ]_vars

\* C6: ScrollUp and ScrollDown on a list whose cursor is absent or in range
\* leave the list alone, move the cursor by at most one position, keep it
\* in [0, len-1], never drop a selection, do not wrap at either end, and
\* leave it absent on an empty list.
C6_ScrollClamped ==
    [][ (last'.op \in {"ScrollUp", "ScrollDown"} /\ CursorValid)
        => /\ mangas' = mangas
           /\ CursorValid'
           /\ (mangas = << >> => selected' = NoSel)
           /\ (selected # NoSel =>
                 /\ selected' # NoSel
                 /\ selected' - selected \in {-1, 0, 1})
           /\ (selected = NoSel /\ mangas # << >> => selected' = 0)
           /\ (last'.op = "ScrollDown" /\ selected = Len(mangas) - 1
                 => selected' = selected)
           /\ (last'.op = "ScrollDown" /\ selected # NoSel => selected' >= selected)
           /\ (last'.op = "ScrollUp" /\ selected = 0 => selected' = 0)
           /\ (last'.op = "ScrollUp" /\ selected # NoSel => selected' <= selected) ]_vars

\* C6 witness: ScrollDown has just been applied and the cursor is on the
\* last item of a list of at least two
C6_Witness ==
    /\ last.op = "ScrollDown"
    /\ Len(mangas) >= 2
    /\ selected = Len(mangas) - 1

\* C7 (as claimed): no item of the current list carries an image_state or a
\* protocol that the pipeline of an earlier result set produced.
C7_NoStaleCover ==
    \A i \in 1..Len(mangas) :
        /\ mangas[i].igen \in {0, mangas[i].gen}
        /\ mangas[i].pg \in {0, mangas[i].gen}

\* C8: applying a DecodeImage, LoadCover or Redraw event whose id matches no
\* item of the result list leaves the list with every image_state, the
\* cursor, PageState and InputMode unchanged and starts no resize worker.
C8_UnknownIdChangesNothing ==
    [][ (last'.op \in {"DecodeImage", "LoadCover", "Redraw"} /\ last'.id \notin ItemIds)
        => UNCHANGED << mangas, selected, state, input_mode, workers >> ]_vars

\* C8 witness: LoadCover(Some(image), id) has just been applied to a list
\* that holds items, none of them with that id
C8_Witness ==
    /\ last.op = "LoadCover" /\ last.some
    /\ mangas # << >>
    /\ last.id \notin ItemIds

\* The ids for which some DecodeImage(None, id) has been sent
NoneIds == { p[1] : p \in decodeNone }

\* C9 (as claimed): once DecodeImage(None, id) has been sent, no decode
\* thread sends a LoadCover event with that id, over any run of searches.
C9_NoCoverAfterNoneById ==
    [][ \A d \in decoders \ decoders' : d.id \notin NoneIds ]_vars

\* C9 (amended): for an item of one built result list, once its
\* DecodeImage(None, id) has been sent, no decode thread sends a LoadCover
\* event for that item.
C9_NoCoverAfterNoneForItem ==
    [][ \A d \in decoders \ decoders' : << d.id, d.gen >> \notin decodeNone ]_vars

\* C9 witness: a decode thread has just sent LoadCover for an id whose
\* DecodeImage(None, id) was sent for the item of another result list
C9_Witness ==
    /\ last.op = "decode_thread"
    /\ local_ev # << >>
    /\ local_ev[Len(local_ev)].type = "LoadCover"
    /\ local_ev[Len(local_ev)].id \in NoneIds

\* SpecLive: the page under the scheduling the program gives its units.  The
\* UI loop keeps calling update, tick, handle_events and render; every
\* spawned task and thread keeps running until it has sent or left its loop.
\* Keys are the user's: nothing obliges one to arrive.  The remote returns
\* at most LiveCovers items with cover attributes.
SearchTaskLive ==
    \E i \in 1..Len(search_tasks), ok \in BOOLEAN, data \in Responses \cup { << >> } :
        /\ search_task(i, ok, data)
        /\ nCover' <= LiveCovers

NextLive ==
    \/ KeyEvent
    \/ update
    \/ tick
    \/ handle_events_Redraw
    \/ render
    \/ SearchTaskLive
    \/ CoverFetch
    \/ DecodeThread
    \/ WorkerResize
    \/ WorkerExit

Fairness ==
    /\ WF_vars(update)
    /\ WF_vars(tick)
    /\ WF_vars(handle_events_Redraw)
    /\ WF_vars(render)
    /\ WF_vars(SearchTaskLive)
    /\ WF_vars(CoverFetch)
    /\ WF_vars(DecodeThread)
    /\ WF_vars(WorkerResize)
    /\ WF_vars(WorkerExit)

SpecLive == Init /\ [][NextLive]_vars /\ Fairness

\* The item with this id of the result list built as number g
InList(id, g) ==
    \E i \in 1..Len(mangas) : mangas[i].id = id /\ mangas[i].gen = g

\* The item's cover was fetched and decoded: its LoadCover(Some(image), id)
\* waits on the event channel while the item is in the list
CoverDecoded(id, g) ==
    /\ InList(id, g)
    /\ \E k \in 1..Len(local_ev) : local_ev[k] = LoadCover(TRUE, id, g)

\* A Redraw event has filled the item's protocol handle
Populated(id, g) ==
    \E i \in 1..Len(mangas) :
        /\ mangas[i].id = id /\ mangas[i].gen = g
        /\ mangas[i].igen # 0 /\ mangas[i].pg # 0 /\ mangas[i].enc

\* The item is the one the cursor selects
IsSelected(id, g) ==
    /\ CurrentMangaSelected # 0
    /\ mangas[CurrentMangaSelected].id = id
    /\ mangas[CurrentMangaSelected].gen = g

\* C10 (as claimed): an item whose cover was fetched and decoded gets, unless
\* a newer search replaces the list, its protocol handle populated by a
\* Redraw event, selected or not.
C10_CoverEventuallyPopulated ==
    \A id \in Ids, g \in 1..MaxSearches :
        CoverDecoded(id, g) ~> (Populated(id, g) \/ ~InList(id, g))

\* C10 (amended): an item whose cover was fetched and decoded gets its
\* protocol handle populated by a Redraw event, unless a newer search
\* replaces the list or the item is not, or does not stay, the selected one.
C10_SelectedCoverEventuallyPopulated ==
    \A id \in Ids, g \in 1..MaxSearches :
        CoverDecoded(id, g)
            ~> (Populated(id, g) \/ ~InList(id, g) \/ ~IsSelected(id, g))

\* C10 witness: a Redraw event has just populated the protocol handle of the
\* selected item with the protocol of the item's own pipeline
C10_Witness ==
    /\ last.op = "Redraw"
    /\ \E i \in 1..Len(mangas) :
          /\ selected = i - 1
          /\ mangas[i].igen = mangas[i].gen /\ mangas[i].pg = mangas[i].gen
          /\ mangas[i].enc

\* The steps of tick: the idle call and the three kinds of event it applies
TickOps == {"tick", "LoadMangasFound", "DecodeImage", "LoadCover"}

\* C11: one call of tick takes at most one event off the local event channel
\* and applies only that one: the events behind it stay pending in their
\* order, the only events added are the DecodeImage(None, id) the call sends
\* itself while it builds a list, and the call changes only what the event
\* it took changes.
C11_TickTakesOneEvent ==
    [][ (last'.op \in TickOps /\ local_ev # << >>)
        => /\ last'.op = Head(local_ev).type
           /\ Len(local_ev') >= Len(local_ev) - 1
           /\ SubSeq(local_ev', 1, Len(local_ev) - 1) = Tail(local_ev)
           /\ \A k \in Len(local_ev)..Len(local_ev') :
                 /\ Head(local_ev).type = "LoadMangasFound"
                 /\ local_ev'[k].type = "DecodeImage" /\ ~local_ev'[k].some
                 /\ \E j \in 1..Len(Head(local_ev).data) :
                       local_ev'[k].id = Head(local_ev).data[j].id
           /\ (Head(local_ev).type = "LoadMangasFound"
                 => UNCHANGED << decoders, workers >>)
           /\ (Head(local_ev).type = "DecodeImage"
                 => /\ UNCHANGED << state, mangas, cover_fetches, workers >>
                    /\ decoders' \ decoders \subseteq
                          { [id |-> Head(local_ev).id, gen |-> Head(local_ev).gen] })
           /\ (Head(local_ev).type = "LoadCover"
                 => /\ UNCHANGED << state, cover_fetches, decoders >>
                    /\ Len(mangas') = Len(mangas)
                    /\ \A i \in 1..Len(mangas) :
                          mangas[i].id # Head(local_ev).id => mangas'[i] = mangas[i]
                    /\ \A w \in workers' \ workers : w.id = Head(local_ev).id) ]_vars

\* C11 witness: tick has just applied a DecodeImage event and a LoadCover
\* event that waited behind it is still pending
C11_Witness ==
    /\ last.op = "DecodeImage"
    /\ local_ev # << >>
    /\ Head(local_ev).type = "LoadCover"

\* The LoadMangasFound events waiting on a channel
Completions(q) == { i \in 1..Len(q) : q[i].type = "LoadMangasFound" }

\* C12: a search fetch that completes leaves the set of running fetches and
\* sends one LoadMangasFound event, behind the events already pending:
\* Some(data) with data not empty iff the remote call succeeded with at least
\* one item, None after an empty success and after a failure.  No other step
\* ends a search fetch or sends a LoadMangasFound event.
C12_SearchSendsOneEvent ==
    [][ /\ (last'.op = "search_task"
              => /\ Len(search_tasks') = Len(search_tasks) - 1
                 /\ Len(local_ev') = Len(local_ev) + 1
                 /\ SubSeq(local_ev', 1, Len(local_ev)) = local_ev
                 /\ local_ev'[Len(local_ev')].type = "LoadMangasFound"
                 /\ local_ev'[Len(local_ev')].some = last'.some
                 /\ (local_ev'[Len(local_ev')].data # << >>) = last'.some)
        /\ (Len(search_tasks') < Len(search_tasks) => last'.op = "search_task")
        /\ (Cardinality(Completions(local_ev')) > Cardinality(Completions(local_ev))
              => last'.op = "search_task") ]_vars

\* C12 witness: a search fetch whose remote call failed or returned no item
\* has just sent LoadMangasFound(None), behind an event that was pending
C12_Witness ==
    /\ last.op = "search_task" /\ ~last.some
    /\ Len(local_ev) >= 2
    /\ local_ev[Len(local_ev)] = LoadMangasFound(FALSE, << >>)

\* C13: a call of tick that finds no event pending changes nothing of the
\* page: PageState, InputMode, the list with every image_state, the cursor,
\* the text, the channels and the running units are what they were.
C13_IdleTickChangesNothing ==
    [][ (last'.op \in TickOps /\ local_ev = << >>)
        => UNCHANGED << input_mode, state, search_bar, mangas, selected,
                        action_q, local_ev, global_ev, search_tasks,
                        cover_fetches, decoders, workers >> ]_vars

\* C13 witness: tick has just found the channel empty, on a page that shows
\* a list, runs a resize worker and has an action waiting
C13_Witness ==
    /\ last.op = "tick"
    /\ local_ev = << >>
    /\ state = "DisplayingSearchResponse"
    /\ mangas # << >> /\ workers # {}
    /\ action_q # << >>

\* C14: the routing of a key by InputMode.  Idle: 's', 'j' and 'k' enqueue
\* StartTyping, ScrollDown and ScrollUp, any other key enqueues nothing, and
\* no key changes the text.  Typing: Enter enqueues Search iff PageState is
\* not SearchingMangas at that moment, Esc enqueues StopTyping, neither
\* changes the text; any other key, 's', 'j' and 'k' included, enqueues
\* nothing.  A key changes nothing but the action channel and the text.
C14_KeyRouting ==
    [][ \A k \in Keys :
          last'.op = k
          => /\ UNCHANGED << input_mode, state, mangas, selected, local_ev,
                             global_ev, search_tasks, cover_fetches, decoders,
                             workers >>
             /\ (input_mode = "Idle"
                   => /\ search_bar' = search_bar
                      /\ action_q' =
                           CASE k = "s" -> Append(action_q, "StartTyping")
                             [] k = "j" -> Append(action_q, "ScrollDown")
                             [] k = "k" -> Append(action_q, "ScrollUp")
                             [] OTHER -> action_q)
             /\ (input_mode = "Typing" /\ k = "Enter"
                   => /\ search_bar' = search_bar
                      /\ action_q' = IF state # "SearchingMangas"
                                     THEN Append(action_q, "Search")
                                     ELSE action_q)
             /\ (input_mode = "Typing" /\ k = "Esc"
                   => /\ search_bar' = search_bar
                      /\ action_q' = Append(action_q, "StopTyping"))
             /\ (input_mode = "Typing" /\ k \notin {"Enter", "Esc"}
                   => action_q' = action_q) ]_vars

\* C14 witness: Enter has just been pressed in Typing mode while PageState is
\* SearchingMangas, and no action waits
C14_Witness ==
    /\ last.op = "Enter"
    /\ input_mode = "Typing"
    /\ state = "SearchingMangas"
    /\ action_q = << >>

\* C15 (as claimed): the query of a search fetch is the text the search bar
\* held when Enter submitted the search; no key handled after that Enter,
\* before or after the Search action is applied, changes that query.
C15_QueryIsTextAtSubmission ==
    [][ /\ (last'.op = "Search"
              => search_tasks' = Append(search_tasks, Head(submitted)))
        /\ (last'.op \in Keys => search_tasks' = search_tasks) ]_vars

\* The events a step has put on the local event channel behind those that
\* were pending (taken is the number of events the step took off)
Sent(taken) == SubSeq(local_ev', Len(local_ev) - taken + 1, Len(local_ev'))

\* C16: the tick that builds the list from LoadMangasFound(Some(data)) sends,
\* for every item without cover attributes, one DecodeImage(None, id) and
\* spawns no unit; for every item with cover attributes it spawns one cover
\* fetch and sends nothing.  It starts no decode thread and no worker.  A
\* cover fetch that completes sends one DecodeImage event with its id,
\* Some(bytes) iff the remote call succeeded, and starts nothing itself.
C16_OnePipelineStartPerItem ==
    [][ /\ (last'.op = "LoadMangasFound" /\ last'.some
              => LET data == Head(local_ev).data
                     spawned == cover_fetches' \ cover_fetches
                 IN  /\ \A j \in 1..Len(data) :
                           /\ Cardinality({ f \in spawned : f.id = data[j].id })
                                = (IF data[j].cover THEN 1 ELSE 0)
                           /\ Cardinality({ k \in 1..Len(Sent(1)) :
                                               Sent(1)[k].id = data[j].id })
                                = (IF data[j].cover THEN 0 ELSE 1)
                     /\ \A k \in 1..Len(Sent(1)) :
                           Sent(1)[k].type = "DecodeImage" /\ ~Sent(1)[k].some
                     /\ Cardinality(spawned) = Covers(data)
                     /\ Len(Sent(1)) = Len(data) - Covers(data)
                     /\ cover_fetches \subseteq cover_fetches'
                     /\ UNCHANGED << decoders, workers >>)
        /\ (last'.op = "cover_fetch"
              => /\ cover_fetches' \subseteq cover_fetches
                 /\ Cardinality(cover_fetches \ cover_fetches') = 1
                 /\ SubSeq(local_ev', 1, Len(local_ev)) = local_ev
                 /\ Len(Sent(0)) = 1
                 /\ Sent(0)[1].type = "DecodeImage"
                 /\ Sent(0)[1].some = last'.some
                 /\ \A f \in cover_fetches \ cover_fetches' :
                       Sent(0)[1].id = f.id
                 /\ UNCHANGED << decoders, workers >>)
        /\ (cover_fetches' # cover_fetches
              => last'.op \in {"LoadMangasFound", "cover_fetch"}) ]_vars

\* C16 witness: tick has just built a list of two items, one with cover
\* attributes and one without: one cover fetch runs and one
\* DecodeImage(None, id), for the other item, is pending
C16_Witness ==
    /\ last.op = "LoadMangasFound" /\ last.some
    /\ Len(mangas) = 2
    /\ \E i, j \in 1..2 :
          /\ i # j
          /\ cover_fetches = { [id |-> mangas[i].id, gen |-> gen] }
          /\ local_ev = << DecodeImage(FALSE, mangas[j].id, gen) >>

\* C17 (as claimed): an item gets at most one resize worker: a
\* LoadCover(Some(image), id) applied to an item that already has an
\* image_state starts no second worker and leaves the image_state in place.
C17_OneWorkerPerItem ==
    [][ (/\ last'.op = "LoadCover" /\ last'.some
         /\ Find(last'.id) # 0
         /\ mangas[Find(last'.id)].igen # 0)
        => /\ workers' = workers
           /\ mangas' = mangas ]_vars

\* C18: under the scheduling of SpecLive (ticks keep coming, every search
\* fetch returns) PageState = SearchingMangas is always followed by
\* PageState = DisplayingSearchResponse, whatever waits on the event channel
\* ahead of the LoadMangasFound event; and a page that has left Normal never
\* is in Normal again.
C18_SearchingLeadsToDisplaying ==
    /\ (state = "SearchingMangas") ~> (state = "DisplayingSearchResponse")
    /\ [][ state # "Normal" => state' # "Normal" ]_vars

\* C18 witness: the page is searching and the LoadMangasFound event of its
\* search waits behind another event on the local event channel
C18_Witness ==
    /\ state = "SearchingMangas"
    /\ last.op = "search_task"
    /\ Len(local_ev) >= 2
    /\ local_ev[1].type # "LoadMangasFound"
    /\ local_ev[Len(local_ev)].type = "LoadMangasFound"

\* C19: in every reachable state PageState = SearchingMangas implies that
\* the result list is empty.
C19_SearchingListEmpty == state = "SearchingMangas" => mangas = << >>

\* C19 witness: while the page is searching again, tick has just applied a
\* late LoadCover(Some(image), id) of the result set the Search cleared
C19_Witness ==
    /\ state = "SearchingMangas"
    /\ gen >= 1
    /\ last.op = "LoadCover" /\ last.some
    /\ mangas = << >>

\* The worker loop of pipeline <<id, g>> has not left its loop
Running(id, g) == \E w \in workers : w.id = id /\ w.gen = g

\* No item of the list holds the image_state made for pipeline <<id, g>>:
\* the item was dropped with its list, or its image_state was replaced
OwnerDropped(id, g) ==
    \A i \in 1..Len(mangas) : ~(mangas[i].id = id /\ mangas[i].igen = g)

\* The workers whose image_state is held by an item of the list
ServingWorkers == { w \in workers : ~OwnerDropped(w.id, w.gen) }

\* Every serving worker serves an item of its own, and a worker whose
\* image_state is gone has at most one request left to finish
LiveWorkersBounded ==
    /\ Cardinality(ServingWorkers) <= Len(mangas)
    /\ \A w \in workers \ ServingWorkers : Len(w.reqs) <= 1

====
